---- MODULE Spec2Model ----
(***************************************************************************)
(* Model of the risks API: the token_required decorator (app/auth.py), the *)
(* four routes (app/routes.py), the store helpers (app/utils.py) and the   *)
(* validators (validators/CalculateRisk.py).                               *)
(*                                                                         *)
(* Spec        : one worker serving HTTP requests of every kind, one after *)
(*               the other.                                                *)
(* SpecConc    : two workers serving requests to the list routes           *)
(*               concurrently.                                             *)
(* SpecPatient : two workers calling utils.check_patient concurrently,     *)
(*               with its five parameters bound (the call the route makes  *)
(*               does not bind them, see BindArgs).                        *)
(***************************************************************************)
EXTENDS Integers, Sequences, FiniteSets, TLC

\* ------------------------------------------------------------------------
\* Python values, tagged with their type.
\* ------------------------------------------------------------------------
PStr(s)   == [t |-> "str",      n |-> 0, s |-> s]
PInt(i)   == [t |-> "int",      n |-> i, s |-> ""]
PBool(b)  == [t |-> "bool",     n |-> IF b THEN 1 ELSE 0, s |-> ""]
PFloat(i) == [t |-> "float",    n |-> i, s |-> ""]
NoneV    == [t |-> "NoneType", n |-> 0, s |-> ""]
\* datetime.date, written as its ISO form
PDate(d)  == [t |-> "date",     n |-> 0, s |-> d]

\* dict.get(key) and dict.get(key, default)
Get(item, k) == IF k \in DOMAIN item THEN item[k] ELSE NoneV
GetDefault(item, k, d) == IF k \in DOMAIN item THEN item[k] ELSE d

\* isinstance(v, cls); bool is a subclass of int
IsStr(v)   == v.t = "str"
IsInt(v)   == v.t \in {"int", "bool"}
IsBool(v)  == v.t = "bool"
IsFloat(v) == v.t = "float"

\* datetime.strptime(s, '%Y-%m-%d'): the strings of the model that parse
ParsesAsDate(s) == s \in {"1968-09-25", "1968-9-25"}
\* datetime.strptime(s, '%Y-%m-%d').date(): %m and %d also take one digit
strptime(s) == CASE s \in {"1968-09-25", "1968-9-25"} -> PDate("1968-09-25")

\* ------------------------------------------------------------------------
\* The registry of risk types and the validators
\* ------------------------------------------------------------------------
BaseFields == {"name", "birthday", "snils", "gender"}

required_fields(ty) ==
    CASE ty = "score" -> BaseFields \cup {"smoking", "blood_pressure", "cholesterol", "type"}
      [] ty = "kerdo" -> BaseFields \cup {"diastolic_bp", "pulse", "type"}
      [] ty = "kvaas" -> BaseFields \cup {"diastolic_bp", "systolic_bp", "pulse", "type"}

ScoreLen == 9
KerdoLen == 8
KvaasLen == 9

correct_len(ty) ==
    CASE ty = "score" -> ScoreLen
      [] ty = "kerdo" -> KerdoLen
      [] ty = "kvaas" -> KvaasLen

type_risks == {"score", "kerdo", "kvaas"}

validateMutant(ty, item) == TRUE

validateTyped(ty, item) ==
    \A f \in required_fields(ty) : f \in DOMAIN item /\ (f = "pulse" => item[f].t = "int")

\* lines 50-59
validate(ty, item) == \A f \in required_fields(ty) : f \in DOMAIN item

len_data_itemsStrict(ty, item) ==
    validate(ty, item) /\ Cardinality(DOMAIN item) <= correct_len(ty)

\* lines 61-69
len_data_items(ty, item) == ~(Cardinality(DOMAIN item) > correct_len(ty))

Err(msg, arg) == [ok |-> FALSE, msg |-> msg, arg |-> arg, res |-> <<>>]
Ok(res)       == [ok |-> TRUE, msg |-> "", arg |-> "", res |-> res]

\* BaseValidator.check_types: the first failing check decides
BaseCheckTypes(item) ==
    LET name     == Get(item, "name")
        birthday == Get(item, "birthday")
        snils    == Get(item, "snils")
        gender   == Get(item, "gender")
        ra       == GetDefault(item, "return_answer", PBool(FALSE))
    IN  IF ~IsStr(name) THEN Err("The type of name must be a string", name.t)
        ELSE IF ~IsStr(birthday) THEN Err("The type of birthday must be a string", birthday.t)
        ELSE IF ~ParsesAsDate(birthday.s) THEN Err("The birthday must be in the format YYYY-MM-DD", "")
        ELSE IF ~IsStr(snils) THEN Err("The type of snils must be a string", snils.t)
        ELSE IF ~IsStr(gender) THEN Err("The type of gender must be a string", gender.t)
        ELSE IF gender.s \notin {"male", "female"} THEN Err("The gender must be a male or female", "")
        ELSE IF ~IsBool(ra) THEN Err("The type of return_answer must be a bool", ra.t)
        ELSE Ok([name |-> name, birthday |-> strptime(birthday.s), snils |-> snils,
                 gender |-> gender, return_answer |-> ra])

ScoreCheckTypes(item) ==
    LET base == BaseCheckTypes(item)
        smoking == Get(item, "smoking")
        bp      == Get(item, "blood_pressure")
        chol    == Get(item, "cholesterol")
    IN  IF ~base.ok THEN base
        ELSE IF ~IsInt(smoking) THEN Err("The type of smoking must be an integer", smoking.t)
        ELSE IF smoking.n \notin {0, 1} THEN Err("The smoking must be a 0 or 1", "")
        ELSE IF ~IsInt(bp) THEN Err("The type of blood_pressure must be an integer", bp.t)
        ELSE IF ~IsFloat(chol) THEN Err("The type of cholesterol must be a float", chol.t)
        ELSE Ok(base.res @@ [smoking |-> smoking, blood_pressure |-> bp, cholesterol |-> chol])

\* The kerdo fields are checked before the base fields
KerdoCheckTypesSubtypeFirst(item) ==
    LET base == BaseCheckTypes(item)
        dbp   == Get(item, "diastolic_bp")
        pulse == Get(item, "pulse")
    IN  IF ~IsInt(dbp) THEN Err("The type of diastolic_bp must be an integer", dbp.t)
        ELSE IF ~IsInt(pulse) THEN Err("The type of pulse must be an integer", pulse.t)
        ELSE IF ~base.ok THEN base
        ELSE Ok(base.res @@ [diastolic_bp |-> dbp, pulse |-> pulse])

KerdoCheckTypes(item) ==
    LET base == BaseCheckTypes(item)
        dbp   == Get(item, "diastolic_bp")
        pulse == Get(item, "pulse")
    IN  IF ~base.ok THEN base
        ELSE IF ~IsInt(dbp) THEN Err("The type of diastolic_bp must be an integer", dbp.t)
        ELSE IF ~IsInt(pulse) THEN Err("The type of pulse must be an integer", pulse.t)
        ELSE Ok(base.res @@ [diastolic_bp |-> dbp, pulse |-> pulse])

KvaasCheckTypes(item) ==
    LET base == BaseCheckTypes(item)
        dbp   == Get(item, "diastolic_bp")
        pulse == Get(item, "pulse")
        sbp   == Get(item, "systolic_bp")
    IN  IF ~base.ok THEN base
        ELSE IF ~IsInt(dbp) THEN Err("The type of diastolic_bp must be an integer", dbp.t)
        ELSE IF ~IsInt(pulse) THEN Err("The type of pulse must be an integer", pulse.t)
        \* the message names the type of diastolic_bp (line 440)
        ELSE IF ~IsInt(sbp) THEN Err("The type of systolic_bp must be an integer", dbp.t)
        ELSE Ok(base.res @@ [diastolic_bp |-> dbp, pulse |-> pulse, systolic_bp |-> sbp])

check_types(ty, item) ==
    CASE ty = "score" -> ScoreCheckTypes(item)
      [] ty = "kerdo" -> KerdoCheckTypes(item)
      [] ty = "kvaas" -> KvaasCheckTypes(item)

\* ------------------------------------------------------------------------
\* Request items the clients send
\* ------------------------------------------------------------------------
Person(sn) == [name |-> PStr("Ivanov"), birthday |-> PStr("1968-09-25"),
               snils |-> PStr(sn), gender |-> PStr("male")]

KerdoFields == [type |-> PStr("kerdo"), diastolic_bp |-> PInt(70), pulse |-> PInt(65)]

ItKerdo      == Person("s1") @@ KerdoFields @@ [return_answer |-> PBool(TRUE)]
ItKerdoQuiet == Person("s2") @@ KerdoFields
ItScore      == Person("s1") @@ [type |-> PStr("score"), smoking |-> PInt(1),
                                 blood_pressure |-> PInt(129), cholesterol |-> PFloat(7)]
ItKvaas      == Person("s2") @@ [type |-> PStr("kvaas"), diastolic_bp |-> PInt(70),
                                 systolic_bp |-> PInt(120), pulse |-> PInt(65),
                                 return_answer |-> PBool(FALSE)]
ItUnknown    == Person("s1") @@ [type |-> PStr("nonexistent")]
ItTypeInt    == Person("s1") @@ [type |-> PInt(2)]
ItMissing    == Person("s1") @@ [type |-> PStr("kerdo"), diastolic_bp |-> PInt(70)]
ItExtra      == ItKerdo @@ [id_firm |-> PInt(2)]
ItSneak      == ItKerdoQuiet @@ [id_firm |-> PInt(2)]
ItBadGender  == [ItKerdo EXCEPT !["gender"] = PStr("other")]
ItBadPulse   == [ItKerdo EXCEPT !["pulse"] = PStr("65")]
ItKerdoZero  == [ItKerdo EXCEPT !["pulse"] = PInt(0)]
ItKvaasFlat  == [ItKvaas EXCEPT !["systolic_bp"] = PInt(70)]

Items == {ItKerdo, ItKerdoQuiet, ItScore, ItKvaas, ItUnknown, ItTypeInt,
          ItMissing, ItExtra, ItSneak, ItBadGender, ItBadPulse, ItKerdoZero, ItKvaasFlat}

\* ------------------------------------------------------------------------
\* Bounds of the model
\* ------------------------------------------------------------------------
SeqWorkers  == {"w1"}
ConcWorkers == {"w1", "w2"}
MaxTicks == 3
TickLen  == 1800
MaxBatch == 2
MaxCalls == 3
MaxItems == 2

\* ------------------------------------------------------------------------
\* Credentials: what jwt.decode yields for each Authorization header
\* ------------------------------------------------------------------------
TokenTTL == 3600
RisksTTL == 86400

Endpoints == {"get_listOfEmployees", "get_research", "get_risks", "risk_calculated"}

NoToken == ""
Tokens  == {"tokA", "tokB", "tokBad", "tokNone"}

ExpA == 2 * TickLen
NbfB == TickLen
Never == 1000 * RisksTTL

\* The payload signed into each token; sig is FALSE for a token whose signature
\* does not verify.  methods may be null in the payload (isNone).
Claims(tok) ==
    CASE tok = "tokA" -> [sig |-> TRUE, nbf |-> 0, exp |-> ExpA, id |-> 1,
                          methods |-> [isNone |-> FALSE,
                                       elems |-> {"risk_calculated", "get_listOfEmployees"}],
                          type_risk |-> {2}]
      [] tok = "tokB" -> [sig |-> TRUE, nbf |-> NbfB, exp |-> Never, id |-> 2,
                          methods |-> [isNone |-> FALSE, elems |-> Endpoints],
                          type_risk |-> {1, 2, 3}]
      [] tok = "tokNone" -> [sig |-> TRUE, nbf |-> 0, exp |-> Never, id |-> 3,
                          methods |-> [isNone |-> TRUE, elems |-> {}],
                          type_risk |-> {1}]
      [] OTHER -> [sig |-> FALSE, nbf |-> 0, exp |-> Never, id |-> 0,
                          methods |-> [isNone |-> FALSE, elems |-> {}],
                          type_risk |-> {}]

\* jwt.decode(token, SECRET_KEY, algorithms='HS256') at time t: the signature
\* is verified first, then nbf, then exp.
Decode(tok, t) ==
    LET c == Claims(tok)
    IN  IF ~c.sig THEN [status |-> "InvalidTokenError", decoded |-> c]
        ELSE IF c.nbf > t THEN [status |-> "ImmatureSignatureError", decoded |-> c]
        ELSE IF c.exp <= t THEN [status |-> "ExpiredSignatureError", decoded |-> c]
        ELSE [status |-> "ok", decoded |-> c]

\* json.dumps / json.loads of the cached values
dumps(x) == [json |-> x]
loads(j) == j.json

\* The entry token_required stores for a decoded payload (auth.py line 50)
CacheRecordMutant(decoded) ==
    [methods |-> decoded.methods, id_firm |-> decoded.id, type_risk |-> {}]

CacheRecord(decoded) ==
    [methods |-> decoded.methods, id_firm |-> decoded.id, type_risk |-> decoded.type_risk]

\* ------------------------------------------------------------------------
\* The store: seed rows of tenants 1 and 2, and the catalog of risk types
\* ------------------------------------------------------------------------
SeedPatients ==
    << [id |-> 1, id_firm |-> 1, snils |-> "s1", name |-> "Ivanov",
         birthday |-> "1968-09-25", gender |-> "male"],
       [id |-> 2, id_firm |-> 2, snils |-> "s1", name |-> "Petrov",
         birthday |-> "1968-09-25", gender |-> "male"],
       [id |-> 3, id_firm |-> 2, snils |-> "s3", name |-> "Sidorov",
         birthday |-> "1968-09-25", gender |-> "male"] >>

SeedResearch ==
    << [id |-> 1, id_type |-> 2, id_patient |-> 1, id_firm |-> 1, date |-> 2, name |-> "Ivanov"],
       [id |-> 2, id_type |-> 2, id_patient |-> 2, id_firm |-> 2, date |-> 1, name |-> "Petrov"],
       [id |-> 3, id_type |-> 3, id_patient |-> 3, id_firm |-> 2, date |-> 2, name |-> "Sidorov"] >>

SeedRisks ==
    << [id |-> 1, id_type |-> 2, id_patient |-> 1, id_firm |-> 1, date |-> 2, name |-> "Ivanov", risk |-> 10],
       [id |-> 2, id_type |-> 2, id_patient |-> 2, id_firm |-> 2, date |-> 1, name |-> "Petrov", risk |-> 20],
       [id |-> 3, id_type |-> 3, id_patient |-> 3, id_firm |-> 2, date |-> 2, name |-> "Sidorov", risk |-> 30] >>

TypeRiskTable == { [type |-> "score", id |-> 1], [type |-> "kerdo", id |-> 2],
                   [type |-> "kvaas", id |-> 3] }

\* ------------------------------------------------------------------------
\* State
\* ------------------------------------------------------------------------
VARIABLES
    now,        \* wall clock, seconds
    ticks,      \* number of clock steps taken
    cache,      \* redis db 0: key -> [present, val, exp]
    patients,   \* table patients, in heap order
    research,   \* table research
    risks,      \* table risks
    type_risk,  \* table type_risk (the catalog)
    pc,         \* per worker: position in the request
    token,      \* per worker: request.headers.get('Authorization')
    endpoint,   \* per worker: request.endpoint.split('.')[-1]
    auth,       \* per worker: what token_required resolved and passes on
    items,      \* per worker: the items of request.json iterated so far
    result,     \* per worker: the list result of risk_calculated
    local,      \* per worker: risk_types / risk_indexes held by check_allowed_risks
    cp,         \* per worker: the frame of check_patient
    resp,       \* per worker: the response
    calls       \* check_patient calls completed so far, oldest first

shared == <<now, ticks, cache>>
tables == <<patients, research, risks, type_risk>>
vars   == <<now, ticks, cache, patients, research, risks, type_risk,
            pc, token, endpoint, auth, items, result, local, cp, resp, calls>>

CacheKeys == Tokens \cup {"risks"}
NoEntry == [present |-> FALSE, val |-> dumps(<<>>), exp |-> 0]
NoAuth  == [id_firm |-> 0, type_risk |-> {}, methods |-> {}, src |-> "", at |-> 0,
            invoked |-> FALSE]
NoLocal == <<>>
\* The frame of a call of check_patient: its arguments, its locals (result,
\* id_patient as ret), and what is recorded about the call: the rows of its
\* pair when it began (pre), the rows it inserted, the number of calls that had
\* returned when it began (begun), whether no other call ran during it (solo),
\* and whether it returned from the try block (ok).  When risk_calculated makes
\* the call the frame also keeps the locals of the loop body that follow it:
\* id_type, risk, the store calls of the item that raised (faults) and
\* whether the item got its message (acked).
NoCp    == [id_firm |-> 0, snils |-> "", user |-> "", birthday |-> "", gender |-> "", result |-> 0, pre |-> 0,
            inserted |-> 0, begun |-> 0, solo |-> TRUE, ret |-> 0, ok |-> TRUE,
            risk_index |-> 0, id_type |-> 0, risk |-> 0, faults |-> {}, acked |-> FALSE]
NoResp  == [status |-> 0, kind |-> "", msg |-> "", arg |-> "", list |-> <<>>, src |-> <<>>]

\* cache.get(key): None once the key has expired
CacheGet(k) == IF cache[k].present /\ now < cache[k].exp THEN cache[k] ELSE NoEntry
CacheHit(k) == CacheGet(k).present

Message(status, msg) ==
    [status |-> status, kind |-> "message", msg |-> msg, arg |-> "", list |-> <<>>, src |-> <<>>]
MessageArg(status, msg, arg) ==
    [status |-> status, kind |-> "message", msg |-> msg, arg |-> arg, list |-> <<>>, src |-> <<>>]
\* jsonify({'error': "Internal server error"}), 500: returned by the handlers'
\* except branches and by server_error for an exception nobody caught
\* (arg is the cause, which is logged and not sent)
InternalError(cause) ==
    [status |-> 500, kind |-> "error", msg |-> "Internal server error", arg |-> cause,
     list |-> <<>>, src |-> <<>>]

Workers == DOMAIN pc

TypeOK ==
    /\ now \in Nat /\ ticks \in 0..(MaxTicks + 1)
    /\ DOMAIN cache = CacheKeys
    /\ pc \in [Workers -> {"idle", "auth_get", "auth_decode", "handler", "loop", "risks_get",
                           "risks_load", "risks_set", "check", "done",
                           "cp_count", "cp_insert", "cp_select", "cp_done",
                           "risks_back", "research", "calculate", "risk"}]
    /\ token \in [Workers -> Tokens \cup {NoToken}]
    /\ endpoint \in [Workers -> Endpoints \cup {""}]

InitAt(W, t, seeds) ==
    /\ now = t /\ ticks = 0
    /\ cache = [k \in CacheKeys |-> NoEntry]
    /\ \E seeded \in seeds :
         /\ patients = IF seeded THEN SeedPatients ELSE <<>>
         /\ research = IF seeded THEN SeedResearch ELSE <<>>
         /\ risks    = IF seeded THEN SeedRisks ELSE <<>>
    /\ type_risk = TypeRiskTable
    /\ pc = [w \in W |-> "idle"]
    /\ token = [w \in W |-> NoToken]
    /\ endpoint = [w \in W |-> ""]
    /\ auth = [w \in W |-> NoAuth]
    /\ items = [w \in W |-> <<>>]
    /\ result = [w \in W |-> <<>>]
    /\ local = [w \in W |-> NoLocal]
    /\ cp = [w \in W |-> NoCp]
    /\ resp = [w \in W |-> NoResp]
    /\ calls = <<>>

InitFor(W) == InitAt(W, 0, BOOLEAN)

\* The request of worker w ends with response r
Respond(w, r) ==
    /\ resp' = [resp EXCEPT ![w] = r]
    /\ pc' = [pc EXCEPT ![w] = "done"]

\* ------------------------------------------------------------------------
\* token_required (app/auth.py)
\* ------------------------------------------------------------------------
\* line 66: method_name not in allowed_methods
MethodAllowedMutant(method_name, allowed_methods) == TRUE

MethodAllowed(method_name, allowed_methods) == method_name \in allowed_methods

\* lines 62-77: the method check, then the call of the wrapped handler with
\* id_firm and type_risk.  auth records what was resolved and whether f ran.
Gate(w, allowed_methods, id_firm, tr, src) ==
    LET a == [id_firm |-> id_firm, type_risk |-> tr, methods |-> allowed_methods, src |-> src,
              at |-> now]
    IN  IF ~MethodAllowed(endpoint[w], allowed_methods)
        THEN /\ Respond(w, Message(403, "Method not allowed!"))
             /\ auth' = [auth EXCEPT ![w] = a @@ [invoked |-> FALSE]]
        ELSE /\ auth' = [auth EXCEPT ![w] = a @@ [invoked |-> TRUE]]
             /\ pc' = [pc EXCEPT ![w] = "handler"]
             /\ UNCHANGED resp

\* lines 21-24: a request arrives; no (or an empty) Authorization header
Start(w, eps) ==
    /\ pc[w] = "idle"
    /\ \E tok \in Tokens \cup {NoToken}, ep \in eps :
         /\ token' = [token EXCEPT ![w] = tok]
         /\ endpoint' = [endpoint EXCEPT ![w] = ep]
         /\ IF tok = NoToken
            THEN Respond(w, Message(401, "Token is missing!"))
            ELSE pc' = [pc EXCEPT ![w] = "auth_get"] /\ UNCHANGED resp
    /\ UNCHANGED <<shared, tables, auth, items, result, local, cp, calls>>

\* lines 27-39: cache.get(token); a hit is used without decoding
AuthGet(w) ==
    /\ pc[w] = "auth_get"
    /\ IF CacheHit(token[w])
       THEN LET cache_data == loads(CacheGet(token[w]).val)
            IN  IF cache_data.methods.isNone
                THEN /\ Respond(w, Message(403, "Token data is incomplete. Please contact support to check available methods."))
                     /\ UNCHANGED auth
                ELSE Gate(w, cache_data.methods.elems, cache_data.id_firm,
                          cache_data.type_risk, "cache")
       ELSE pc' = [pc EXCEPT ![w] = "auth_decode"] /\ UNCHANGED <<resp, auth>>
    /\ UNCHANGED <<shared, tables, token, endpoint, items, result, local, cp, calls>>

\* line 50: cache.set(token, json.dumps({...}), ex=3600) at time t
TokenEntryMutant(decoded, t) ==
    [present |-> TRUE, val |-> dumps(CacheRecord(decoded)), exp |-> t + 2 * TokenTTL]

TokenEntry(decoded, t) ==
    [present |-> TRUE, val |-> dumps(CacheRecord(decoded)), exp |-> t + TokenTTL]

\* lines 52-60: the except clauses, the subclasses of InvalidTokenError first
DecodeFailureMutant(status) == Message(401, "Invalid token")

DecodeFailure(status) ==
    CASE status = "ExpiredSignatureError"  -> Message(401, "Token has expired")
      [] status = "ImmatureSignatureError" -> Message(401, "Token has not start yet")
      [] status = "InvalidTokenError"      -> Message(401, "Invalid token")

\* lines 41-60: jwt.decode, then cache.set(..., ex=3600).  The decode is local
\* to the worker; the step is taken at the cache write.
AuthDecode(w) ==
    /\ pc[w] = "auth_decode"
    /\ LET d == Decode(token[w], now)
       IN  IF d.status # "ok"
           THEN Respond(w, DecodeFailure(d.status)) /\ UNCHANGED <<cache, auth>>
           ELSE /\ cache' = [cache EXCEPT ![token[w]] = TokenEntry(d.decoded, now)]
                /\ IF d.decoded.methods.isNone
                   THEN \* method_name not in None: TypeError
                        Respond(w, InternalError("TypeError")) /\ UNCHANGED auth
                   ELSE Gate(w, d.decoded.methods.elems, d.decoded.id,
                             d.decoded.type_risk, "decode")
    /\ UNCHANGED <<now, ticks, tables, token, endpoint, items, result, local, cp, calls>>

\* ------------------------------------------------------------------------
\* The list routes (app/routes.py)
\* ------------------------------------------------------------------------
Today == "2024-10-01"
DefaultFrom == "2024-08-01"
QueryArgs == {"", "2024-09-01", "bad"}

\* datetime.strptime(s, '%Y-%m-%d'): the day number of the strings that parse
DayOf(s) ==
    CASE s = "2024-08-01" -> 1
      [] s = "2024-09-01" -> 2
      [] s = "2024-10-01" -> 3
      [] OTHER -> -1
ParsesAsDay(s) == DayOf(s) # -1

\* x or default
OrDefault(x, d) == IF x = "" THEN d ELSE x

\* WHERE id_firm = :firm_id
OfFirmAll(row, firm_id) == TRUE

OfFirm(row, firm_id) == row.id_firm = firm_id

\* AND date BETWEEN :dateFrom AND :dateTo
Between(row, dateFrom, dateTo) == DayOf(dateFrom) <= row.date /\ row.date <= DayOf(dateTo)

RowIds(rows) == [i \in 1..Len(rows) |-> rows[i].id]

\* jsonify(list), 200; src keeps the ids of the rows the list was built from
ListResponse(kind, rows, list) ==
    [status |-> 200, kind |-> kind, msg |-> "", arg |-> "",
     list |-> list, src |-> RowIds(rows)]

PatientView(row)  == [name |-> row.name, snils |-> row.snils]
ResearchView(row) == [date |-> row.date, name |-> row.name]
\* LEFT JOIN type_risk AS t ON t.id = r.id_type
TypeName(id_type) ==
    IF \E t \in type_risk : t.id = id_type
    THEN (CHOOSE t \in type_risk : t.id = id_type).type
    ELSE "null"
RiskView(row) == [name |-> row.name, type |-> TypeName(row.id_type),
                  risk |-> row.risk, date |-> row.date]

Handling(w, ep) == pc[w] = "handler" /\ endpoint[w] = ep

\* lines 50-89
get_listOfEmployees(w) ==
    /\ Handling(w, "get_listOfEmployees")
    /\ \E up \in BOOLEAN :
         IF ~up THEN Respond(w, InternalError("store"))
         ELSE LET firm_id == auth[w].id_firm
                  rows == SelectSeq(patients, LAMBDA r : OfFirm(r, firm_id))
              IN  Respond(w, ListResponse("patients", rows, [i \in 1..Len(rows) |-> PatientView(rows[i])]))
    /\ UNCHANGED <<shared, tables, token, endpoint, auth, items, result, local, cp, calls>>

\* lines 122-140 and 195-213: the two date parameters
DateError(dateFrom, dateTo) ==
    IF ~ParsesAsDay(dateFrom)
    THEN Message(400, "dateFrom must be in the format YYYY-MM-DD. Make sure month and day are valid values.")
    ELSE Message(400, "dateTo must be in the format YYYY-MM-DD. Make sure month and day are valid values.")

\* lines 95-162
get_research(w) ==
    /\ Handling(w, "get_research")
    /\ \E qFrom \in QueryArgs, qTo \in QueryArgs, up \in BOOLEAN :
         LET firm_id  == auth[w].id_firm
             dateFrom == OrDefault(qFrom, DefaultFrom)
             dateTo   == OrDefault(qTo, Today)
             rows == SelectSeq(research,
                        LAMBDA r : OfFirm(r, firm_id) /\ Between(r, dateFrom, dateTo))
         IN  IF ~ParsesAsDay(dateFrom) \/ ~ParsesAsDay(dateTo)
             THEN Respond(w, DateError(dateFrom, dateTo))
             ELSE IF ~up THEN Respond(w, InternalError("store"))
             ELSE Respond(w, ListResponse("research", rows, [i \in 1..Len(rows) |-> ResearchView(rows[i])]))
    /\ UNCHANGED <<shared, tables, token, endpoint, auth, items, result, local, cp, calls>>

\* lines 168-242
get_risks(w) ==
    /\ Handling(w, "get_risks")
    /\ \E qFrom \in QueryArgs, qTo \in QueryArgs, up \in BOOLEAN :
         LET firm_id  == auth[w].id_firm
             dateFrom == OrDefault(qFrom, DefaultFrom)
             dateTo   == OrDefault(qTo, Today)
             rows == SelectSeq(risks,
                        LAMBDA r : OfFirm(r, firm_id) /\ Between(r, dateFrom, dateTo))
         IN  IF ~ParsesAsDay(dateFrom) \/ ~ParsesAsDay(dateTo)
             THEN Respond(w, DateError(dateFrom, dateTo))
             ELSE IF ~up THEN Respond(w, InternalError("store"))
             ELSE Respond(w, ListResponse("risk", rows, [i \in 1..Len(rows) |-> RiskView(rows[i])]))
    /\ UNCHANGED <<shared, tables, token, endpoint, auth, items, result, local, cp, calls>>

\* The error response carries the messages gathered so far
AbortWithMessages(w, r) == Respond(w, [r EXCEPT !.list = result[w]])

\* An item is refused: risk_calculated returns an error from inside its loop
AbortMutant(w, r) ==
    /\ resp' = [resp EXCEPT ![w] = r]
    /\ pc' = [pc EXCEPT ![w] = "loop"]

Abort(w, r) == Respond(w, r)

\* ------------------------------------------------------------------------
\* check_allowed_risks (app/utils.py), as risk_calculated calls it at line 321
\* ------------------------------------------------------------------------
\* check_allowed_risks returns to its caller: line 321 (before check_patient)
\* or line 354 (after it)
AfterRisks(w) == IF cp[w].id_firm = NoCp.id_firm THEN "check" ELSE "risks_back"

\* The mapping of one row of the table only
RiskTypesFirst(rows) ==
    LET first == CHOOSE r \in rows : \A q \in rows : r.id <= q.id
    IN  [n \in {first.type} |-> first.id]

\* line 109: {row['type']: row['id'] for row in risk_dict}
RiskTypes(rows) == [n \in {r.type : r \in rows} |-> (CHOOSE r \in rows : r.type = n).id]

\* lines 91-95: cache.get('risks') is outside the try; a hit is returned
RisksGet(w) ==
    /\ pc[w] = "risks_get"
    /\ IF CacheHit("risks")
       THEN /\ local' = [local EXCEPT ![w] = loads(CacheGet("risks").val)]
            /\ pc' = [pc EXCEPT ![w] = AfterRisks(w)]
            /\ UNCHANGED resp
       ELSE pc' = [pc EXCEPT ![w] = "risks_load"] /\ UNCHANGED <<resp, local>>
    /\ UNCHANGED <<shared, tables, token, endpoint, auth, items, result, cp, calls>>

\* lines 96-109: SELECT * FROM type_risk.  On an exception the function returns
\* (jsonify(...), 500), and risk_indexes[type_risk] at routes.py line 322
\* raises TypeError on that tuple.
RisksLoad(w) ==
    /\ pc[w] = "risks_load"
    /\ \E up \in BOOLEAN :
         IF ~up THEN Abort(w, InternalError("store")) /\ UNCHANGED local
         ELSE /\ local' = [local EXCEPT ![w] = RiskTypes(type_risk)]
              /\ pc' = [pc EXCEPT ![w] = "risks_set"]
              /\ UNCHANGED resp
    /\ UNCHANGED <<shared, tables, token, endpoint, auth, items, result, cp, calls>>

\* line 112: cache.set('risks', json.dumps(risk_types), ex=86400); an exception
\* is caught at line 115 and the function returns (jsonify(...), 500) as above
RisksSet(w) ==
    /\ pc[w] = "risks_set"
    /\ \E up \in BOOLEAN :
         IF ~up
         THEN /\ Abort(w, InternalError("store"))
              /\ local' = [local EXCEPT ![w] = NoLocal]
              /\ UNCHANGED cache
         ELSE /\ cache' = [cache EXCEPT !["risks"] =
                             [present |-> TRUE, val |-> dumps(local[w]), exp |-> now + RisksTTL]]
              /\ pc' = [pc EXCEPT ![w] = AfterRisks(w)]
              /\ UNCHANGED <<resp, local>>
    /\ UNCHANGED <<now, ticks, tables, token, endpoint, auth, items, result, cp, calls>>

\* ------------------------------------------------------------------------
\* risk_calculated (app/routes.py)
\* ------------------------------------------------------------------------
ResultResponse(list) ==
    [status |-> 200, kind |-> "result", msg |-> "", arg |-> "", list |-> list, src |-> <<>>]

KnownTypeAny(ty) == TRUE

\* line 316: type_risk in type_risks
KnownType(ty) == ty \in type_risks

\* lines 310-318: the next item of data, or the end of the loop (line 384)
risk_calculated(w, its) ==
    /\ Handling(w, "risk_calculated") \/ pc[w] = "loop"
    /\ \/ /\ Respond(w, ResultResponse(result[w]))
          /\ UNCHANGED items
       \/ /\ Len(items[w]) < MaxBatch
          /\ \E item \in its :
               LET ty == Get(item, "type")
               IN  /\ items' = [items EXCEPT ![w] = Append(@, item)]
                   /\ IF ~IsStr(ty)
                      THEN Abort(w, MessageArg(400, "The type of type_risk must be a string", ty.t))
                      ELSE IF ~KnownType(ty.s)
                      THEN Abort(w, Message(400, "This type of risk does not exist"))
                      ELSE pc' = [pc EXCEPT ![w] = "risks_get"] /\ UNCHANGED resp
    /\ UNCHANGED <<shared, tables, token, endpoint, auth, result, local, cp, calls>>

\* line 323: not risk_index in risk_type
RiskPermittedAlways(risk_index, risk_type) == TRUE

RiskPermitted(risk_index, risk_type) == risk_index \in risk_type

\* lines 319 and 399: the divisions of Kerdo.calculate_risk and of
\* Kvaas.calculate_risk have a non-zero divisor
CalculationDefined(ty, res) ==
    CASE ty = "kerdo" -> res["pulse"].n # 0
      [] ty = "kvaas" -> res["systolic_bp"].n # res["diastolic_bp"].n
      [] OTHER -> TRUE

\* lines 378-381: the message appended to result for an item (its kind and the
\* snils it names)
SuccessMessage(res) ==
    IF res["return_answer"].n = 1
    THEN [message |-> "risk_score for user snils", snils |-> res["snils"].s]
    ELSE [message |-> "data for user snils has been sent successfully", snils |-> res["snils"].s]

\* Binding of a call f(*positional, **kwargs) to a def with the parameters
\* params (all without defaults) and a trailing **kwargs: every parameter gets
\* exactly one value, or TypeError.
BindArgs(params, positional, kwargs) ==
    /\ (params \ positional) \subseteq DOMAIN kwargs
    /\ positional \cap DOMAIN kwargs = {}

\* utils.py line 13: def check_patient(id_firm, snils, user, birthday, gender, **kwargs)
CheckPatientParams == {"id_firm", "snils", "user", "birthday", "gender"}

CurrentItem(w) == items[w][Len(items[w])]

\* res as the callees of lines 346 and 374 need it: with the patient's name
\* under the key 'user' as well
BoundRes(res) == res @@ [user |-> res["name"]]

\* lines 322-346: the token's risk types, validate, len_data_items, check_types,
\* then the call check_patient(firm_id, **res).  res has no key 'user', so the
\* call raises TypeError for every res that check_types returns, and lines
\* 350-384 are not reached; with repaired the call is made with BoundRes(res).
ItemCheckWith(w, repaired) ==
    /\ pc[w] = "check"
    /\ LET item == CurrentItem(w)
           ty   == item["type"].s
           risk_indexes == local[w]
           checked == check_types(ty, item)
           res == IF repaired THEN BoundRes(checked.res) ELSE checked.res
       IN  IF ty \notin DOMAIN risk_indexes
           THEN Abort(w, InternalError("KeyError")) /\ UNCHANGED cp
           ELSE IF ~RiskPermitted(risk_indexes[ty], auth[w].type_risk)
           THEN Abort(w, Message(400, "This type of risk is not permitted for your token"))
                /\ UNCHANGED cp
           ELSE IF ~validate(ty, item)
           THEN Abort(w, Message(400, "Invalid request body")) /\ UNCHANGED cp
           ELSE IF ~len_data_items(ty, item)
           THEN Abort(w, Message(400, "Too many arguments received")) /\ UNCHANGED cp
           ELSE IF ~checked.ok
           THEN Abort(w, MessageArg(400, checked.msg, checked.arg)) /\ UNCHANGED cp
           ELSE IF ~BindArgs(CheckPatientParams, {"id_firm"}, res)
           THEN \* TypeError: missing required positional argument
                Abort(w, InternalError("TypeError")) /\ UNCHANGED cp
           ELSE /\ pc' = [pc EXCEPT ![w] = "cp_count"]
                /\ cp' = [cp EXCEPT ![w] = [NoCp EXCEPT !.id_firm = auth[w].id_firm,
                                                        !.snils = res["snils"].s,
                                                        !.user = res["user"].s,
                                                        !.risk_index = risk_indexes[ty],
                                                        !.birthday = res["birthday"].s,
                                                        !.gender = res["gender"].s,
                                                        !.begun = Len(calls)]]
                /\ UNCHANGED resp
    /\ UNCHANGED <<shared, tables, token, endpoint, auth, items, result, local, calls>>

ItemCheck(w) == ItemCheckWith(w, FALSE)

\* The response has been sent: the worker takes the next request
Finish(w) ==
    /\ pc[w] = "done"
    /\ pc' = [pc EXCEPT ![w] = "idle"]
    /\ token' = [token EXCEPT ![w] = NoToken]
    /\ endpoint' = [endpoint EXCEPT ![w] = ""]
    /\ auth' = [auth EXCEPT ![w] = NoAuth]
    /\ items' = [items EXCEPT ![w] = <<>>]
    /\ result' = [result EXCEPT ![w] = <<>>]
    /\ local' = [local EXCEPT ![w] = NoLocal]
    /\ resp' = [resp EXCEPT ![w] = NoResp]
    /\ UNCHANGED <<shared, tables, cp, calls>>

\* Time passes; redis drops the keys whose ex has run out
Tick ==
    /\ ticks < MaxTicks
    /\ now' = now + TickLen
    /\ cache' = [k \in CacheKeys |->
                   IF cache[k].present /\ now + TickLen < cache[k].exp THEN cache[k] ELSE NoEntry]
    /\ ticks' = ticks + 1
    /\ UNCHANGED <<tables, pc, token, endpoint, auth, items, result, local, cp, resp, calls>>

Init == InitFor(SeqWorkers)

Next ==
    \/ \E w \in SeqWorkers :
         \/ Start(w, Endpoints) \/ AuthGet(w) \/ AuthDecode(w)
         \/ get_listOfEmployees(w) \/ get_research(w) \/ get_risks(w)
         \/ risk_calculated(w, Items) \/ RisksGet(w) \/ RisksLoad(w) \/ RisksSet(w)
         \/ ItemCheck(w)
         \/ Finish(w)
    \/ Tick

Spec == Init /\ [][Next]_vars

\* Two workers, the requests being those to two of the list routes
ConcEndpoints == {"get_listOfEmployees", "get_research"}

InitConc == InitFor(ConcWorkers)

NextConc ==
    \/ \E w \in ConcWorkers :
         \/ Start(w, ConcEndpoints) \/ AuthGet(w) \/ AuthDecode(w)
         \/ get_listOfEmployees(w) \/ get_research(w)
         \/ Finish(w)
    \/ Tick

SpecConc == InitConc /\ [][NextConc]_vars

\* ------------------------------------------------------------------------
\* check_patient (app/utils.py), called by concurrent workers
\* ------------------------------------------------------------------------
PatientFirms == {1, 2}
PatientSnils == {"s1", "s2"}
\* The personal data two submissions carry for a patient
PatientData == {[user |-> "Ivanov", birthday |-> "1968-09-25", gender |-> "male"],
                [user |-> "Ivanova", birthday |-> "1970-02-03", gender |-> "female"]}

\* WHERE snils = :snils AND id_firm = :id_firm
SamePatient(row, id_firm, snils) == row.id_firm = id_firm /\ row.snils = snils

Matching(id_firm, snils) == SelectSeq(patients, LAMBDA r : SamePatient(r, id_firm, snils))

Active(w) == pc[w] \in {"cp_count", "cp_insert", "cp_select", "cp_done"}

\* line 13: a worker calls check_patient(id_firm, snils, user, birthday, gender)
CPCall(w) ==
    /\ pc[w] = "idle"
    /\ Len(calls) + Cardinality({v \in ConcWorkers : Active(v)}) < MaxCalls
    /\ \E id_firm \in PatientFirms, snils \in PatientSnils, data \in PatientData :
         LET others == \E v \in ConcWorkers \ {w} : Active(v)
         IN  cp' = [v \in ConcWorkers |->
                      IF v = w
                      THEN [NoCp EXCEPT !.id_firm = id_firm, !.snils = snils, !.user = data.user,
                                        !.birthday = data.birthday, !.gender = data.gender,
                                        !.pre = Len(Matching(id_firm, snils)),
                                        !.begun = Len(calls), !.solo = ~others]
                      ELSE IF Active(v) THEN [cp[v] EXCEPT !.solo = FALSE] ELSE cp[v]]
    /\ pc' = [pc EXCEPT ![w] = "cp_count"]
    /\ UNCHANGED <<shared, tables, token, endpoint, auth, items, result, local, resp, calls>>

\* lines 45-47: an exception inside the try block; the function returns
\* (jsonify({'error': ...}), 500) in place of an id
CPRaise(w) ==
    /\ cp' = [cp EXCEPT ![w].ok = FALSE, ![w].ret = 0]
    /\ pc' = [pc EXCEPT ![w] = "cp_done"]
    /\ UNCHANGED patients

\* lines 29-32: SELECT count(*) ... .scalar()
CPCount(w) ==
    /\ pc[w] = "cp_count"
    /\ \E up \in BOOLEAN :
         IF ~up THEN CPRaise(w)
         ELSE LET result_ == Len(Matching(cp[w].id_firm, cp[w].snils))
              IN  /\ cp' = [cp EXCEPT ![w].result = result_]
                  /\ pc' = [pc EXCEPT ![w] = IF result_ = 0 THEN "cp_insert" ELSE "cp_select"]
                  /\ UNCHANGED patients
    /\ UNCHANGED <<shared, research, risks, type_risk, token, endpoint, auth, items, result,
                   local, resp, calls>>

\* The frame's row replaces the name, birthday and gender of the rows of its
\* (id_firm, snils), and is inserted when there is none
InsertPatientUpsert(rows, f) ==
    IF \E i \in 1..Len(rows) : rows[i].id_firm = f.id_firm /\ rows[i].snils = f.snils
    THEN [i \in 1..Len(rows) |->
            IF rows[i].id_firm = f.id_firm /\ rows[i].snils = f.snils
            THEN [rows[i] EXCEPT !.name = f.user, !.birthday = f.birthday, !.gender = f.gender]
            ELSE rows[i]]
    ELSE Append(rows, [id |-> Len(rows) + 1, id_firm |-> f.id_firm, snils |-> f.snils,
                       name |-> f.user, birthday |-> f.birthday, gender |-> f.gender])

\* lines 34-36: INSERT INTO patients (name, birthday, gender, snils, id_firm);
\* id is the table's serial primary key
InsertPatient(rows, f) ==
    Append(rows, [id |-> Len(rows) + 1, id_firm |-> f.id_firm, snils |-> f.snils,
                  name |-> f.user, birthday |-> f.birthday, gender |-> f.gender])

\* lines 34-38: INSERT INTO patients ... and session.commit()
CPInsert(w) ==
    /\ pc[w] = "cp_insert"
    /\ \E up \in BOOLEAN :
         IF ~up THEN CPRaise(w)
         ELSE /\ patients' = InsertPatient(patients, cp[w])
              /\ cp' = [cp EXCEPT ![w].inserted = @ + 1]
              /\ pc' = [pc EXCEPT ![w] = "cp_select"]
    /\ UNCHANGED <<shared, research, risks, type_risk, token, endpoint, auth, items, result,
                   local, resp, calls>>

\* lines 40-44: SELECT id ... .scalar(): the first row of a result whose order
\* the query leaves open
CPSelect(w) ==
    /\ pc[w] = "cp_select"
    /\ \E up \in BOOLEAN :
         IF ~up THEN CPRaise(w)
         ELSE LET rows == Matching(cp[w].id_firm, cp[w].snils)
              IN  /\ \E id_patient \in IF rows = <<>> THEN {0}
                                        ELSE {rows[i].id : i \in 1..Len(rows)} :
                        cp' = [cp EXCEPT ![w].ret = id_patient]
                  /\ pc' = [pc EXCEPT ![w] = "cp_done"]
                  /\ UNCHANGED patients
    /\ UNCHANGED <<shared, research, risks, type_risk, token, endpoint, auth, items, result,
                   local, resp, calls>>

\* lines 44 and 47: the call returns; calls keeps the frames in order of return
CPReturn(w) ==
    /\ pc[w] = "cp_done"
    /\ calls' = Append(calls, cp[w])
    /\ cp' = [cp EXCEPT ![w] = NoCp]
    /\ pc' = [pc EXCEPT ![w] = "idle"]
    /\ UNCHANGED <<shared, tables, token, endpoint, auth, items, result, local, resp>>

InitPatient == InitFor(ConcWorkers)

NextPatient ==
    \E w \in ConcWorkers :
        CPCall(w) \/ CPCount(w) \/ CPInsert(w) \/ CPSelect(w) \/ CPReturn(w)

SpecPatient == InitPatient /\ [][NextPatient]_vars

\* ------------------------------------------------------------------------
\* The loop body of risk_calculated after line 346 (app/routes.py), entered
\* with the call of check_patient bound
\* ------------------------------------------------------------------------
ItemCheckBound(w) == Len(calls) < MaxItems /\ ItemCheckWith(w, TRUE)

\* The validated fields of the item worker w is processing
Res(w) == BoundRes(check_types(CurrentItem(w)["type"].s, CurrentItem(w)).res)

\* x / y rounded to an integer (y # 0)
RoundDiv(x, y) == IF y > 0 THEN (2 * x + y) \div (2 * y) ELSE (2 * (0 - x) - y) \div (2 * (0 - y))

\* validator.calculate_risk(**res), rounded to two places, in hundredths
\* (for 'score' the value of the formula for the score item of the model)
calculate_risk(ty, res) ==
    CASE ty = "kerdo" -> RoundDiv(10000 * (res["pulse"].n - res["diastolic_bp"].n), res["pulse"].n)
      [] ty = "kvaas" -> RoundDiv(1000 * res["pulse"].n,
                                  res["systolic_bp"].n - res["diastolic_bp"].n)
      [] ty = "score" -> 871  \* round(100.0 * (r + r1), 2) for ItScore

\* An item leaves the loop body: calls keeps whether check_patient returned an
\* id, which store calls of the item raised and whether it got its message
EndItem(w, acked, faults) ==
    /\ calls' = Append(calls, [ok |-> cp[w].ok, faults |-> faults, acked |-> acked])
    /\ cp' = [cp EXCEPT ![w] = NoCp]

\* lines 346-356: check_patient has returned; id_type from the cache, or from
\* check_allowed_risks when the key has run out
IdType(w) ==
    /\ pc[w] \in {"cp_done", "risks_back"}
    /\ LET ty == CurrentItem(w)["type"].s
       IN  IF pc[w] = "cp_done"
           THEN IF CacheHit("risks")
                THEN /\ cp' = [cp EXCEPT ![w].id_type =
                                  LET cache_data == loads(CacheGet("risks").val)
                                  IN  IF ty \in DOMAIN cache_data THEN cache_data[ty] ELSE 0]
                     /\ pc' = [pc EXCEPT ![w] = "research"]
                ELSE pc' = [pc EXCEPT ![w] = "risks_get"] /\ UNCHANGED cp
           ELSE /\ cp' = [cp EXCEPT ![w].id_type = local[w][ty]]
                /\ pc' = [pc EXCEPT ![w] = "research"]
    /\ UNCHANGED <<shared, tables, token, endpoint, auth, items, result, local, resp, calls>>

\* lines 358-363: validator.add_research(id_firm=..., id_type=..., id_patient=...,
\* **res) inserts and commits; an exception (the store, or an id_patient that
\* is the error tuple of check_patient) is caught and logged, and the loop
\* body goes on
add_research(w) ==
    /\ pc[w] = "research"
    /\ \E up \in BOOLEAN :
         IF up /\ cp[w].ok
         THEN /\ research' = Append(research,
                                 [id |-> Len(research) + 1, id_type |-> cp[w].id_type,
                                  id_patient |-> cp[w].ret, id_firm |-> auth[w].id_firm,
                                  date |-> DayOf(Today), name |-> Res(w)["name"].s])
              /\ UNCHANGED cp
         ELSE /\ cp' = [cp EXCEPT ![w].faults = @ \cup {"add_research"}]
              /\ UNCHANGED research
    /\ pc' = [pc EXCEPT ![w] = "calculate"]
    /\ UNCHANGED <<shared, patients, risks, type_risk, token, endpoint, auth, items, result,
                   local, resp, calls>>

CalculateUnchecked(w) ==
    /\ pc[w] = "calculate"
    /\ cp' = [cp EXCEPT ![w].risk = 0]
    /\ pc' = [pc EXCEPT ![w] = "risk"]
    /\ UNCHANGED <<shared, tables, token, endpoint, auth, items, result, local, resp, calls>>

\* lines 365-371: risk = round(validator.calculate_risk(**res), 2); an exception
\* ends the request with 500
Calculate(w) ==
    /\ pc[w] = "calculate"
    /\ LET ty == CurrentItem(w)["type"].s
       IN  IF ~CalculationDefined(ty, Res(w))
           THEN /\ Abort(w, InternalError("ZeroDivisionError"))
                /\ EndItem(w, FALSE, cp[w].faults)
           ELSE /\ cp' = [cp EXCEPT ![w].risk = calculate_risk(ty, Res(w))]
                /\ pc' = [pc EXCEPT ![w] = "risk"]
                /\ UNCHANGED <<resp, calls>>
    /\ UNCHANGED <<shared, tables, token, endpoint, auth, items, result, local>>

\* utils.py line 50: def add_risk(id_type, risk, id_firm, id_patient, user, birthday, **kwargs)
AddRiskParams == {"id_type", "risk", "id_firm", "id_patient", "user", "birthday"}

\* lines 374-381: add_risk(id_type, risk, firm_id, id_patient, **res) inserts
\* and commits; an exception is caught inside add_risk (utils.py 76-78), whose
\* return value the route drops; then the message of the item
add_risk(w) ==
    /\ pc[w] = "risk"
    /\ IF ~BindArgs(AddRiskParams, {"id_type", "risk", "id_firm", "id_patient"}, Res(w))
       THEN /\ Abort(w, InternalError("TypeError"))
            /\ EndItem(w, FALSE, cp[w].faults)
            /\ UNCHANGED <<risks, result>>
       ELSE /\ \E up \in BOOLEAN :
                 IF up /\ cp[w].ok
                 THEN /\ risks' = Append(risks,
                                      [id |-> Len(risks) + 1, id_type |-> cp[w].id_type,
                                       id_patient |-> cp[w].ret, id_firm |-> auth[w].id_firm,
                                       date |-> DayOf(Today), name |-> Res(w)["user"].s,
                                       risk |-> cp[w].risk])
                      /\ EndItem(w, TRUE, cp[w].faults)
                 ELSE /\ UNCHANGED risks
                      /\ EndItem(w, TRUE, cp[w].faults \cup {"add_risk"})
            /\ result' = [result EXCEPT ![w] = Append(@, SuccessMessage(Res(w)))]
            /\ pc' = [pc EXCEPT ![w] = "loop"]
            /\ UNCHANGED resp
    /\ UNCHANGED <<shared, patients, research, type_risk, token, endpoint, auth, items, local>>

\* The items sent in this specification: two that pass every check, two whose
\* divisor is zero, and one for each check that refuses
TailItems == {ItKerdo, ItKvaas, ItKerdoZero, ItKvaasFlat,
              ItUnknown, ItMissing, ItExtra, ItBadPulse}

NextItem ==
    \E w \in SeqWorkers :
         \/ Start(w, {"risk_calculated"}) \/ AuthGet(w) \/ AuthDecode(w)
         \/ risk_calculated(w, TailItems) \/ RisksGet(w) \/ RisksLoad(w) \/ RisksSet(w)
         \/ ItemCheckBound(w)
         \/ CPCount(w) \/ CPInsert(w) \/ CPSelect(w)
         \/ IdType(w) \/ add_research(w) \/ Calculate(w) \/ add_risk(w)
         \/ Finish(w)

\* The requests arrive at a time at which tokA and tokB both decode
InitItem == InitAt(SeqWorkers, NbfB, {FALSE})

SpecItem == InitItem /\ [][NextItem]_vars

\* ------------------------------------------------------------------------
\* check_allowed_risks (app/utils.py), called by concurrent workers over days
\* ------------------------------------------------------------------------
\* line 81: a worker calls check_allowed_risks()
RisksCall(w) ==
    /\ pc[w] = "idle"
    /\ Len(calls) + Cardinality({v \in ConcWorkers : pc[v] # "idle"}) < MaxCalls
    /\ pc' = [pc EXCEPT ![w] = "risks_get"]
    /\ UNCHANGED <<shared, tables, token, endpoint, auth, items, result, local, cp, resp, calls>>

\* lines 117 and 120: the call returns the mapping, or the error tuple of the
\* except branch; calls keeps the time and the value of each return
RisksReturn(w) ==
    /\ pc[w] \in {"check", "done"}
    /\ calls' = Append(calls, [at |-> now, ok |-> pc[w] = "check", ret |-> local[w]])
    /\ local' = [local EXCEPT ![w] = NoLocal]
    /\ resp' = [resp EXCEPT ![w] = NoResp]
    /\ pc' = [pc EXCEPT ![w] = "idle"]
    /\ UNCHANGED <<shared, tables, token, endpoint, auth, items, result, cp>>

\* A day passes; redis drops the keys whose ex has run out
DayPasses ==
    /\ ticks < MaxTicks
    /\ now' = now + RisksTTL
    /\ cache' = [k \in CacheKeys |->
                   IF cache[k].present /\ now + RisksTTL < cache[k].exp THEN cache[k] ELSE NoEntry]
    /\ ticks' = ticks + 1
    /\ UNCHANGED <<tables, pc, token, endpoint, auth, items, result, local, cp, resp, calls>>

InitRisks == InitAt(ConcWorkers, 0, {TRUE})

NextRisks ==
    \/ \E w \in ConcWorkers :
          RisksCall(w) \/ RisksGet(w) \/ RisksLoad(w) \/ RisksSet(w) \/ RisksReturn(w)
    \/ Tick
    \/ DayPasses

SpecRisks == InitRisks /\ [][NextRisks]_vars

\* ------------------------------------------------------------------------
\* risk_calculated while the 'risks' key runs out and the catalog is edited
\* ------------------------------------------------------------------------
\* The catalog after an edit of the type_risk table that renumbers two types
TypeRiskTableEdited == { [type |-> "score", id |-> 1], [type |-> "kerdo", id |-> 3],
                         [type |-> "kvaas", id |-> 2] }

\* The type_risk table is edited in the store (no statement of the program
\* writes it)
CatalogChange ==
    /\ type_risk = TypeRiskTable
    /\ type_risk' = TypeRiskTableEdited
    /\ UNCHANGED <<shared, patients, research, risks, pc, token, endpoint, auth, items, result,
                   local, cp, resp, calls>>

NextDrift ==
    \/ \E w \in SeqWorkers :
         \/ Start(w, {"risk_calculated"}) \/ AuthGet(w) \/ AuthDecode(w)
         \/ risk_calculated(w, {ItKerdo, ItKvaas}) \/ RisksGet(w) \/ RisksLoad(w) \/ RisksSet(w)
         \/ ItemCheckBound(w)
         \/ CPCount(w) \/ CPInsert(w) \/ CPSelect(w)
         \/ IdType(w) \/ add_research(w) \/ Calculate(w) \/ add_risk(w)
         \/ Finish(w)
    \/ DayPasses
    \/ CatalogChange

SpecDrift == InitItem /\ [][NextDrift]_vars

\* ------------------------------------------------------------------------
\* The validators (validators/CalculateRisk.py), applied to items of every
\* shape
\* ------------------------------------------------------------------------
\* A key the item does not have
Absent == [t |-> "absent", n |-> 0, s |-> ""]

\* The dict with the keys of f whose value is not Absent
Dict(f) == [k \in {k \in DOMAIN f : f[k] # Absent} |-> f[k]]

\* The base fields of an item, and up to two keys no validator knows
BaseItems ==
    { Dict([name |-> n, birthday |-> b, snils |-> sn, gender |-> g, return_answer |-> ra,
            id_firm |-> x1, comment |-> x2]) :
        n \in {PStr("Ivanov"), PStr(""), PInt(7), Absent},
        b \in {PStr("1968-09-25"), PStr("1968-9-25"), PStr("25.09.1968"), PInt(1968)},
        sn \in {PStr("s1"), PInt(1)},
        g \in {PStr("male"), PStr("female"), PStr("other"), PBool(TRUE)},
        ra \in {Absent, PBool(TRUE), PInt(1)}, x1 \in {Absent, PInt(2)}, x2 \in {Absent} }
    \cup { Dict([name |-> PStr("Ivanov"), birthday |-> PStr("1968-09-25"), snils |-> PStr("s1"),
                gender |-> g, return_answer |-> ra, id_firm |-> PInt(2), comment |-> PStr("x")]) :
             g \in {PStr("male"), PStr("female"), PStr("other"), PBool(TRUE)},
             ra \in {Absent, PBool(TRUE), PInt(1)} }

\* The fields of each subtype, with right and wrong types
SubtypeItems ==
    { Dict([type |-> PStr("score"), smoking |-> sm, blood_pressure |-> bp, cholesterol |-> ch]) :
        sm \in {PInt(1), PInt(2), PBool(TRUE), PStr("1")}, bp \in {PInt(129), PFloat(129)},
        ch \in {PFloat(7), PInt(7)} }
    \cup
    { Dict([type |-> PStr("kerdo"), diastolic_bp |-> dbp, pulse |-> pu]) :
        dbp \in {PInt(70), PStr("70"), Absent}, pu \in {PInt(65), PFloat(65), Absent} }
    \cup
    { Dict([type |-> PStr("kvaas"), diastolic_bp |-> dbp, pulse |-> pu, systolic_bp |-> sbp]) :
        dbp \in {PInt(70), PStr("70")}, pu \in {PInt(65), PFloat(65)},
        sbp \in {PInt(120), NoneV, Absent} }

ValidatorItems == { b @@ t : b \in BaseItems, t \in SubtypeItems }

\* The return values of the methods called so far: <<>> before the call
NoReturns == [validate |-> <<>>, len_data_items |-> <<>>, check_types |-> <<>>]

\* routes.py line 327: validator = type_risks[type_risk](item)
Construct(w) ==
    /\ pc[w] = "idle"
    /\ \E item \in ValidatorItems : items' = [items EXCEPT ![w] = <<item>>]
    /\ local' = [local EXCEPT ![w] = NoReturns]
    /\ pc' = [pc EXCEPT ![w] = "validator"]
    /\ UNCHANGED <<shared, tables, token, endpoint, auth, result, cp, resp, calls>>

\* validator.validate()
CallValidate(w) ==
    /\ pc[w] = "validator" /\ local[w].validate = <<>>
    /\ local' = [local EXCEPT ![w].validate =
                    <<validate(CurrentItem(w)["type"].s, CurrentItem(w))>>]
    /\ UNCHANGED <<shared, tables, pc, token, endpoint, auth, items, result, cp, resp, calls>>

\* validator.len_data_items()
CallLenDataItems(w) ==
    /\ pc[w] = "validator" /\ local[w].len_data_items = <<>>
    /\ local' = [local EXCEPT ![w].len_data_items =
                    <<len_data_items(CurrentItem(w)["type"].s, CurrentItem(w))>>]
    /\ UNCHANGED <<shared, tables, pc, token, endpoint, auth, items, result, cp, resp, calls>>

\* validator.check_types(item)
CallCheckTypes(w) ==
    /\ pc[w] = "validator" /\ local[w].check_types = <<>>
    /\ local' = [local EXCEPT ![w].check_types =
                    <<check_types(CurrentItem(w)["type"].s, CurrentItem(w))>>]
    /\ UNCHANGED <<shared, tables, pc, token, endpoint, auth, items, result, cp, resp, calls>>

InitValidator == InitAt(SeqWorkers, 0, {FALSE})

NextValidator ==
    \E w \in SeqWorkers :
        Construct(w) \/ CallValidate(w) \/ CallLenDataItems(w) \/ CallCheckTypes(w)

SpecValidator == InitValidator /\ [][NextValidator]_vars

\* ------------------------------------------------------------------------
\* Properties
\* ------------------------------------------------------------------------
HandlerPhase == {"handler", "loop", "risks_get", "risks_load", "risks_set", "check",
                 "cp_count", "cp_insert", "cp_select", "cp_done"}
ListKinds == {"patients", "research", "risk"}

\* Worker w has taken a step
Stepped(w) == pc'[w] # pc[w]

\* C1: the wrapped handler is invoked only if the endpoint's method name is a
\* member of the allowed methods resolved for the credential; otherwise the
\* response is 403 'Method not allowed!' and the handler is never invoked.
MethodGate ==
    \A w \in Workers :
        /\ auth[w].invoked => endpoint[w] \in auth[w].methods
        /\ (pc[w] \in HandlerPhase \/ resp[w].kind \in ListKinds \cup {"result"})
              => auth[w].invoked
        /\ (auth[w].src # "" /\ endpoint[w] \notin auth[w].methods)
              => /\ pc[w] = "done"
                 /\ resp[w] = Message(403, "Method not allowed!")
                 /\ ~auth[w].invoked

\* A cached credential is refused for a route outside its methods
MethodGateWitness ==
    \E w \in Workers :
        /\ auth[w].src = "cache"
        /\ endpoint[w] \notin auth[w].methods
        /\ resp[w] = Message(403, "Method not allowed!")

\* The numeric id of a risk type name in the type_risk table
TypeRiskId(ty) == (CHOOSE r \in type_risk : r.type = ty).id

\* The item worker w is checking names a type of the table whose id is outside
\* the credential's risk types
NotPermitted(w) ==
    LET ty == CurrentItem(w)["type"].s
    IN  /\ pc[w] = "check"
        /\ \E r \in type_risk : r.type = ty
        /\ TypeRiskId(ty) \notin Claims(token[w]).type_risk

\* C2: in risk_calculated no Patient, Research or Risk row is written for an
\* item unless the numeric id of its risk type is a member of the credential's
\* allowed risk types; when it is not a member the batch ends with the message
\* 'This type of risk is not permitted for your token'.
RiskTypeGate ==
    [][\A w \in Workers :
         /\ (NotPermitted(w) /\ Stepped(w))
               => /\ pc'[w] = "done"
                  /\ resp'[w] = Message(400, "This type of risk is not permitted for your token")
                  /\ tables' = tables
                  /\ cp' = cp
         /\ (pc'[w] = "cp_count" /\ Stepped(w))
               => (pc[w] = "check" /\ ~NotPermitted(w))
         /\ tables' = tables
      ]_vars

RiskTypeGateWitness ==
    \E w \in Workers :
        /\ pc[w] = "done" /\ token[w] = "tokA" /\ items[w] = <<ItScore>>
        /\ resp[w] = Message(400, "This type of risk is not permitted for your token")

\* The rows a list response of the given kind is drawn from
TableOf(kind) ==
    CASE kind = "patients" -> patients
      [] kind = "research" -> research
      [] kind = "risk"     -> risks

\* C3: every row written while serving a request carries the id_firm resolved
\* from the request's credential, every list route returns only rows of that
\* id_firm, and no field of an item reaches the id_firm that is used.
TenantScoping ==
    \A w \in Workers :
        /\ resp[w].kind \in ListKinds =>
              \A i \in 1..Len(resp[w].src) :
                 \A j \in 1..Len(TableOf(resp[w].kind)) :
                    TableOf(resp[w].kind)[j].id = resp[w].src[i]
                       => TableOf(resp[w].kind)[j].id_firm = Claims(token[w]).id
        /\ pc[w] \in HandlerPhase => auth[w].id_firm = Claims(token[w]).id
        /\ pc[w] = "check" =>
              LET checked == check_types(CurrentItem(w)["type"].s, CurrentItem(w))
              IN  checked.ok => "id_firm" \notin DOMAIN checked.res
        /\ pc[w] \in {"cp_count", "cp_insert", "cp_select", "cp_done"}
              => cp[w].id_firm = Claims(token[w]).id

\* The tenant of tokB lists its two research rows, the table holding a row of
\* another tenant as well
TenantScopingWitness ==
    \E w \in Workers :
        /\ resp[w].kind = "research" /\ token[w] = "tokB" /\ Len(resp[w].src) = 2
        /\ Len(research) = 3

\* C4: under any interleaving of concurrent submissions the patients table
\* holds at most one row per (id_firm, snils) pair.
OnePatientPerPair ==
    \A i, j \in 1..Len(patients) :
        SamePatient(patients[i], patients[j].id_firm, patients[j].snils) => i = j

\* Call j began after call i had returned
After(i, j) == i < j /\ calls[j].begun >= i

\* C5: for every (id_firm, snils) pair two successive non-overlapping calls of
\* check_patient return the same patient id and the second inserts no row; the
\* first inserts exactly one row when none existed.
CheckPatientIdempotent ==
    /\ \A i, j \in 1..Len(calls) :
          (/\ After(i, j) /\ calls[i].ok /\ calls[j].ok
           /\ SamePatient(calls[i], calls[j].id_firm, calls[j].snils))
             => calls[j].ret = calls[i].ret /\ calls[j].inserted = 0
    /\ \A i \in 1..Len(calls) :
          (calls[i].ok /\ calls[i].solo /\ calls[i].pre = 0) => calls[i].inserted = 1

\* The (id_firm, methods, type_risk) tuple that decoding a credential yields
DecodedTuple(tok) == <<Claims(tok).id, Claims(tok).methods, Claims(tok).type_risk>>

\* C6: while a cache entry exists for a credential, token_required resolves it
\* from the cache without decoding, and the (id_firm, methods, type_risk) tuple
\* it passes on equals the tuple decoding the credential yields, in every
\* reachable state, also when several workers decode and populate the same
\* credential concurrently.
CacheAgreement ==
    /\ [](\A tok \in Tokens :
             cache[tok].present =>
                LET cache_data == loads(cache[tok].val)
                IN  <<cache_data.id_firm, cache_data.methods, cache_data.type_risk>>
                       = DecodedTuple(tok))
    /\ [](\A w \in Workers :
             auth[w].src # "" =>
                /\ auth[w].id_firm = Claims(token[w]).id
                /\ auth[w].methods = Claims(token[w]).methods.elems
                /\ auth[w].type_risk = Claims(token[w]).type_risk)
    /\ [][\A w \in Workers :
            (pc[w] = "auth_get" /\ CacheHit(token[w]) /\ Stepped(w))
               => /\ pc'[w] # "auth_decode"
                  /\ auth'[w].src \in {"cache", ""}
                  /\ cache' = cache
         ]_vars

\* One worker is served from the entry another worker wrote by decoding the
\* same credential
CacheAgreementWitness ==
    \E w, v \in Workers :
        /\ token[w] = token[v]
        /\ auth[w].src = "cache" /\ auth[w].invoked
        /\ auth[v].src = "decode"

\* The times the clock takes
Times == {k * TickLen : k \in 0..MaxTicks}

\* C7: a cache entry for a credential is created only by a successful decode,
\* with a TTL of one hour, and is never refreshed or extended by a cache hit;
\* so a credential that has expired is accepted for at most one TTL after its
\* last successful decode, and every use after that is rejected with 401.
CacheLifetime ==
    /\ [](\A tok \in Tokens :
             cache[tok].present =>
                /\ cache[tok].exp >= TokenTTL
                /\ Decode(tok, cache[tok].exp - TokenTTL).status = "ok")
    /\ [](\A w \in Workers :
             auth[w].src # "" =>
                \E t \in Times :
                   /\ t <= auth[w].at /\ auth[w].at < t + TokenTTL
                   /\ Decode(token[w], t).status = "ok")
    /\ [][\A tok \in Tokens :
            cache'[tok] # cache[tok] =>
               \/ cache'[tok] = NoEntry /\ now' >= cache[tok].exp
               \/ /\ now' = now
                  /\ Decode(tok, now).status = "ok"
                  /\ cache'[tok].exp = now + TokenTTL
                  /\ \E w \in Workers :
                        pc[w] = "auth_decode" /\ token[w] = tok /\ Stepped(w)
         ]_vars
    /\ [][\A w \in Workers :
            (/\ pc[w] \in {"auth_get", "auth_decode"} /\ Stepped(w)
             /\ ~CacheHit(token[w]) /\ Decode(token[w], now).status # "ok")
               => \/ pc'[w] = "auth_decode"
                  \/ pc'[w] = "done" /\ resp'[w].status = 401 /\ ~auth'[w].invoked
         ]_vars

\* A credential is accepted from the cache at a time at which it no longer
\* decodes
CacheLifetimeWitness ==
    \E w \in Workers :
        /\ auth[w].src = "cache" /\ auth[w].invoked
        /\ Decode(token[w], auth[w].at).status = "ExpiredSignatureError"

\* C8: a request with no credential is rejected with 401 'Token is missing!',
\* and a credential whose decode fails as expired, not yet valid or invalid is
\* rejected with 401 and its own message; in each case the handler is not
\* invoked and no cache entry is written for the credential.
Rejections ==
    /\ [](\A w \in Workers :
             (token[w] = NoToken /\ pc[w] # "idle") =>
                /\ pc[w] = "done"
                /\ resp[w] = Message(401, "Token is missing!")
                /\ ~auth[w].invoked)
    /\ [][\A w \in Workers :
            (/\ pc[w] = "auth_decode" /\ Stepped(w)
             /\ Decode(token[w], now).status # "ok")
               => /\ pc'[w] = "done"
                  /\ ~auth'[w].invoked
                  /\ cache' = cache
                  /\ resp'[w] =
                       CASE Decode(token[w], now).status = "ExpiredSignatureError"
                              -> Message(401, "Token has expired")
                         [] Decode(token[w], now).status = "ImmatureSignatureError"
                              -> Message(401, "Token has not start yet")
                         [] Decode(token[w], now).status = "InvalidTokenError"
                              -> Message(401, "Invalid token")
         ]_vars
    /\ [](\A tok \in Tokens :
             (\A t \in Times : Decode(tok, t).status # "ok") => ~cache[tok].present)

\* Two requests are refused at the same time for different reasons
RejectionsWitness ==
    \E w, v \in Workers :
        /\ resp[w] = Message(401, "Token has expired")
        /\ resp[v] = Message(401, "Token has not start yet")

\* Item it of a batch sent with credential tok passes authorization and
\* validation, and its calculation is defined
GoodItem(it, tok) ==
    /\ IsStr(Get(it, "type")) /\ it["type"].s \in type_risks
    /\ \E r \in type_risk : r.type = it["type"].s
    /\ TypeRiskId(it["type"].s) \in Claims(tok).type_risk
    /\ validate(it["type"].s, it) /\ len_data_items(it["type"].s, it)
    /\ check_types(it["type"].s, it).ok
    /\ CalculationDefined(it["type"].s, check_types(it["type"].s, it).res)

\* C9: for a batch of items that each pass authorization and validation (cache
\* and store available, calculation defined) risk_calculated answers 200 with
\* exactly one message per item in the order of the items, 'risk_score for user
\* snils ...' when return_answer is true and 'data for user snils ... has been
\* sent successfully' when it is false or absent.
ValidBatchAnswered ==
    \A w \in Workers :
        (/\ pc[w] = "done" /\ endpoint[w] = "risk_calculated" /\ auth[w].invoked
         /\ resp[w].arg # "store"
         /\ \A i \in 1..Len(items[w]) : GoodItem(items[w][i], token[w]))
           => /\ resp[w].status = 200
              /\ resp[w].kind = "result"
              /\ Len(resp[w].list) = Len(items[w])
              /\ \A i \in 1..Len(items[w]) :
                    resp[w].list[i] =
                       SuccessMessage(check_types(items[w][i]["type"].s, items[w][i]).res)

\* C10: if any item of a batch fails a step, the response is that single error
\* and holds no success message for an earlier item, and no later item of the
\* batch is processed.
BatchAbort ==
    /\ [](\A w \in Workers :
             (endpoint[w] = "risk_calculated" /\ resp[w] # NoResp /\ resp[w].kind # "result")
                => /\ pc[w] = "done"
                   /\ resp[w].kind \in {"message", "error"}
                   /\ resp[w].list = <<>>)
    /\ [][\A w \in Workers :
            (endpoint[w] = "risk_calculated" /\ resp[w] # NoResp)
               => \/ pc'[w] = "idle"
                  \/ /\ items'[w] = items[w] /\ resp'[w] = resp[w] /\ pc'[w] = pc[w]
                     /\ tables' = tables /\ cp' = cp
         ]_vars

\* The first item of a batch is refused and the batch had room for another
BatchAbortWitness ==
    \E w \in Workers :
        /\ pc[w] = "done" /\ endpoint[w] = "risk_calculated"
        /\ resp[w] = Message(400, "Too many arguments received")
        /\ Len(items[w]) < MaxBatch

\* The item has every required field, no more keys than correct_len, and
\* fields of the right types
PassesChecks(it) ==
    LET ty == it["type"].s
    IN  /\ required_fields(ty) \subseteq DOMAIN it
        /\ Cardinality(DOMAIN it) <= correct_len(ty)
        /\ check_types(ty, it).ok

\* The item's type is a string naming a registered calculator
OfKnownType(it) == IsStr(Get(it, "type")) /\ Get(it, "type").s \in type_risks

TailPhase == {"cp_count", "cp_insert", "cp_select", "cp_done", "risks_back",
              "research", "calculate", "risk"}

Prefix(rows, rows2) ==
    /\ Len(rows) <= Len(rows2)
    /\ \A i \in 1..Len(rows) : rows2[i] = rows[i]

ZeroDivisor(it) ==
    \/ Get(it, "type") = PStr("kerdo") /\ Get(it, "pulse") = PInt(0)
    \/ Get(it, "type") = PStr("kvaas") /\ Get(it, "systolic_bp") = Get(it, "diastolic_bp")

PatientRowsKept ==
    [][/\ Prefix(patients, patients')
       /\ \A w \in Workers :
            (Stepped(w) /\ pc[w] \in {"cp_count", "cp_select"})
               => patients' = patients
       /\ \A w \in Workers :
            (Stepped(w) /\ cp[w].result > 0) => patients' = patients]_vars

\* A call has returned the id of a row whose name, birthday and gender differ
\* from the ones the call carried
PatientRowsKeptWitness ==
    \E i \in 1..Len(calls) : \E j \in 1..Len(patients) :
        /\ calls[i].ok /\ calls[i].inserted = 0 /\ calls[i].result > 0
        /\ calls[i].ret = patients[j].id
        /\ SamePatient(patients[j], calls[i].id_firm, calls[i].snils)
        /\ patients[j].name # calls[i].user
        /\ patients[j].birthday # calls[i].birthday
        /\ patients[j].gender # calls[i].gender

\* C17: an item whose type is a string that names no registered calculator
\* ends the request with 400 'This type of risk does not exist' in the step
\* that takes it from the batch: before any catalog lookup, permission check or
\* store write, whatever the credential allows.
UnknownTypeRefused ==
    [][\A w \in Workers :
          (/\ Len(items'[w]) = Len(items[w]) + 1
           /\ IsStr(Get(CurrentItem(w)', "type"))
           /\ Get(CurrentItem(w)', "type").s \notin {"score", "kerdo", "kvaas"})
             => /\ pc'[w] = "done"
                /\ resp'[w] = Message(400, "This type of risk does not exist")
                /\ UNCHANGED <<cache, local, patients, research, risks, type_risk, cp>>]_vars

\* A credential that permits every risk type got the refusal
UnknownTypeRefusedWitness ==
    \E w \in Workers :
        /\ pc[w] = "done" /\ Len(items[w]) > 0 /\ CurrentItem(w) = ItUnknown
        /\ resp[w] = Message(400, "This type of risk does not exist")
        /\ Claims(token[w]).type_risk = {r.id : r \in type_risk}
        /\ ~CacheHit("risks")

\* The request of worker w has ended at a statement after validate and
\* len_data_items of its last item: at check_types, or at the call of line 346
PastLenCheck(w) ==
    /\ pc[w] = "done" /\ Len(items[w]) > 0 /\ OfKnownType(CurrentItem(w))
    /\ LET checked == check_types(CurrentItem(w)["type"].s, CurrentItem(w))
       IN  \/ resp[w] = InternalError("TypeError")
           \/ ~checked.ok /\ resp[w] = MessageArg(400, checked.msg, checked.arg)

\* C19: every item that passes validate and len_data_items carries no key other
\* than the required fields of its calculator and the optional return_answer;
\* an item with an extra field is refused with 'Too many arguments received'.
NoExtraFields ==
    \A w \in Workers :
        PastLenCheck(w)
           => DOMAIN CurrentItem(w)
                 \subseteq required_fields(CurrentItem(w)["type"].s) \cup {"return_answer"}

\* C20: validate is true exactly when every required field name of the
\* calculator is a key of the item, whatever the types and values: a permitted
\* item is refused with 'Invalid request body' if and only if one of the
\* required names of its type is missing.
ValidateIffFieldsPresent ==
    [][\A w \in Workers :
          (/\ Stepped(w) /\ pc[w] = "check"
           /\ CurrentItem(w)["type"].s \in DOMAIN local[w]
           /\ local[w][CurrentItem(w)["type"].s] \in auth[w].type_risk)
             => LET item == CurrentItem(w)
                    names == CASE item["type"].s = "score" ->
                                    {"type", "name", "birthday", "snils", "gender", "smoking",
                                     "blood_pressure", "cholesterol"}
                               [] item["type"].s = "kerdo" ->
                                    {"type", "name", "birthday", "snils", "gender",
                                     "diastolic_bp", "pulse"}
                               [] item["type"].s = "kvaas" ->
                                    {"type", "name", "birthday", "snils", "gender",
                                     "systolic_bp", "diastolic_bp", "pulse"}
                IN  (resp'[w] = Message(400, "Invalid request body"))
                       <=> ~(names \subseteq DOMAIN item)]_vars

\* An item with every required name and a pulse of the wrong type went past
\* validate and was refused by check_types
ValidateIffFieldsPresentWitness ==
    \E w \in Workers :
        /\ pc[w] = "done" /\ Len(items[w]) > 0 /\ CurrentItem(w) = ItBadPulse
        /\ resp[w] = MessageArg(400, "The type of pulse must be an integer", "str")

\* The mapping of every risk type name of the catalog to its id
FullMapping(m) ==
    /\ DOMAIN m = {r.type : r \in type_risk}
    /\ \A r \in type_risk : m[r.type] = r.id

\* C18: check_allowed_risks returns the full mapping of risk type names to ids;
\* a miss loads every row of the catalog and stores the whole mapping under the
\* single key 'risks' for 24 hours; the ids returned are the same before and
\* after the key runs out and is loaded again, also when several workers miss
\* at the same time.
RisksMappingStable ==
    /\ \A i \in 1..Len(calls) : calls[i].ok => FullMapping(calls[i].ret)
    /\ \A i, j \in 1..Len(calls) :
          (calls[i].ok /\ calls[j].ok) => calls[i].ret = calls[j].ret
    /\ \A w \in Workers : pc[w] \in {"risks_set", "check"} => FullMapping(local[w])
    /\ cache["risks"].present
          => /\ FullMapping(loads(cache["risks"].val))
             /\ cache["risks"].exp <= now + 86400
             /\ cache["risks"].exp >= 86400
    /\ \A k \in CacheKeys \ {"risks"} : ~cache[k].present

\* The mapping was returned on the first day and again, the same, after the
\* key had run out and was written anew
RisksMappingStableWitness ==
    \E i, j \in 1..Len(calls) :
        /\ calls[i].ok /\ calls[i].at < RisksTTL
        /\ calls[j].ok /\ calls[j].at >= RisksTTL
        /\ calls[i].ret = calls[j].ret
        /\ CacheHit("risks") /\ cache["risks"].exp >= 2 * RisksTTL

\* The validator of worker w has been constructed and its method has returned
Returned(w, method) == pc[w] = "validator" /\ local[w][method] # <<>>

SubtypeFields(ty) ==
    CASE ty = "score" -> {"smoking", "blood_pressure", "cholesterol"}
      [] ty = "kerdo" -> {"diastolic_bp", "pulse"}
      [] ty = "kvaas" -> {"diastolic_bp", "pulse", "systolic_bp"}

\* Everything the contract of check_types asks of an accepted item, but for
\* the name being non-empty
AcceptedItemValid(item, res) ==
    /\ IsStr(Get(item, "name"))
    /\ IsStr(Get(item, "birthday")) /\ Get(item, "birthday").s \in {"1968-09-25", "1968-9-25"}
    /\ IsStr(Get(item, "snils"))
    /\ Get(item, "gender") \in {PStr("male"), PStr("female")}
    /\ "return_answer" \in DOMAIN item => IsBool(item["return_answer"])
    /\ DOMAIN res = BaseFields \cup {"return_answer"} \cup SubtypeFields(item["type"].s)
    /\ res["name"] = item["name"] /\ res["snils"] = item["snils"]
    /\ res["gender"] = item["gender"]
    /\ res["birthday"] = PDate("1968-09-25")
    /\ res["return_answer"] = IF "return_answer" \in DOMAIN item THEN item["return_answer"]
                              ELSE PBool(FALSE)
    /\ \A f \in SubtypeFields(item["type"].s) : f \in DOMAIN item /\ res[f] = item[f]

\* C22: check_types returns ok only if name is a non-empty string, birthday is
\* a string parseable as YYYY-MM-DD, snils is a string, gender is exactly
\* 'male' or 'female' and return_answer is a boolean (false when absent); on ok
\* the returned map holds these validated values and the subtype's fields.
CheckTypesAccepts ==
    \A w \in Workers :
        (Returned(w, "check_types") /\ local[w].check_types[1].ok)
           => /\ AcceptedItemValid(CurrentItem(w), local[w].check_types[1].res)
              /\ Get(CurrentItem(w), "name").s # ""

\* What holds of check_types as it is written: the contract without the name
\* being non-empty
CheckTypesAcceptsAnyName ==
    \A w \in Workers :
        (Returned(w, "check_types") /\ local[w].check_types[1].ok)
           => AcceptedItemValid(CurrentItem(w), local[w].check_types[1].res)

\* The checks of the base fields in the order of the claim: whether the item
\* fails the check on its own, and the message of the check
BaseChecks(item) ==
    LET name     == Get(item, "name")
        birthday == Get(item, "birthday")
        snils    == Get(item, "snils")
        gender   == Get(item, "gender")
    IN  << [bad |-> name.t # "str", msg |-> "The type of name must be a string"],
           [bad |-> birthday.t # "str", msg |-> "The type of birthday must be a string"],
           [bad |-> birthday.t = "str" /\ birthday.s \notin {"1968-09-25", "1968-9-25"},
            msg |-> "The birthday must be in the format YYYY-MM-DD"],
           [bad |-> snils.t # "str", msg |-> "The type of snils must be a string"],
           [bad |-> gender.t # "str", msg |-> "The type of gender must be a string"],
           [bad |-> gender.t = "str" /\ gender.s \notin {"male", "female"},
            msg |-> "The gender must be a male or female"],
           [bad |-> "return_answer" \in DOMAIN item /\ item["return_answer"].t # "bool",
            msg |-> "The type of return_answer must be a bool"] >>

\* is not a Python int (bool is one)
NotInt(v) == v.t \notin {"int", "bool"}

\* The checks of the subtype's fields, in the order of the subclass
SubtypeChecks(ty, item) ==
    CASE ty = "score" ->
           << [bad |-> NotInt(Get(item, "smoking")),
               msg |-> "The type of smoking must be an integer"],
              [bad |-> ~NotInt(Get(item, "smoking")) /\ Get(item, "smoking").n \notin {0, 1},
               msg |-> "The smoking must be a 0 or 1"],
              [bad |-> NotInt(Get(item, "blood_pressure")),
               msg |-> "The type of blood_pressure must be an integer"],
              [bad |-> Get(item, "cholesterol").t # "float",
               msg |-> "The type of cholesterol must be a float"] >>
      [] ty = "kerdo" ->
           << [bad |-> NotInt(Get(item, "diastolic_bp")),
               msg |-> "The type of diastolic_bp must be an integer"],
              [bad |-> NotInt(Get(item, "pulse")),
               msg |-> "The type of pulse must be an integer"] >>
      [] ty = "kvaas" ->
           << [bad |-> NotInt(Get(item, "diastolic_bp")),
               msg |-> "The type of diastolic_bp must be an integer"],
              [bad |-> NotInt(Get(item, "pulse")),
               msg |-> "The type of pulse must be an integer"],
              [bad |-> NotInt(Get(item, "systolic_bp")),
               msg |-> "The type of systolic_bp must be an integer"] >>

\* The indices of the checks of a list that the item fails
Bad(checks) == {i \in 1..Len(checks) : checks[i].bad}

\* The least member of a non-empty set of numbers
Least(S) == CHOOSE i \in S : \A j \in S : i <= j

\* C23: when an item has several invalid fields check_types returns exactly one
\* error, that of the first failing check in the order name, birthday (type,
\* then format), snils, gender (type, then value), return_answer, then the
\* subtype's fields; an error of a base field wins over one of a subtype field.
FirstErrorWins ==
    \A w \in Workers :
        Returned(w, "check_types")
           => LET item   == CurrentItem(w)
                  r      == local[w].check_types[1]
                  checks == BaseChecks(item) \o SubtypeChecks(item["type"].s, item)
              IN  /\ r.ok <=> Bad(checks) = {}
                  /\ ~r.ok => r.msg = checks[Least(Bad(checks))].msg
                  /\ Bad(BaseChecks(item)) # {}
                        => /\ ~r.ok
                           /\ r.msg = BaseChecks(item)[Least(Bad(BaseChecks(item)))].msg

\* An item with an invalid gender, an invalid return_answer and an invalid
\* subtype field got the gender error
FirstErrorWinsWitness ==
    \E w \in Workers :
        /\ Returned(w, "check_types")
        /\ Bad(BaseChecks(CurrentItem(w))) = {6, 7}
        /\ Bad(SubtypeChecks(CurrentItem(w)["type"].s, CurrentItem(w))) # {}
        /\ local[w].check_types[1].msg = "The gender must be a male or female"

Aborts(w) == pc[w] # "done" /\ pc'[w] = "done" /\ resp'[w].kind # "result"

====
